---- MODULE Spec2Model ----
(***************************************************************************)
(* Model of src/stores/nvidia.py: class NvidiaBuyer.                       *)
(*                                                                         *)
(* run_items starts one thread per product id; each thread runs buy,       *)
(* which polls the inventory endpoint (is_in_stock) and then reserves      *)
(* through add_to_cart (get_session_token, then the cart POST).  The       *)
(* threads share the fields of one NvidiaBuyer object: enabled,            *)
(* api_status, api_online, attempt and the notification handler.           *)
(*                                                                         *)
(* The vendor's endpoints are the environment: every request is answered   *)
(* by a nondeterministically chosen response, or fails in the transport.   *)
(* A step of a thread is one request with the pure code that follows it,   *)
(* or one access to a shared field; steps of different threads interleave  *)
(* freely.                                                                 *)
(*                                                                         *)
(* buy calls itself as the last statement of its failure branch, so the    *)
(* call stack carries nothing a frame still has to do; it is not part of   *)
(* the state (Python's recursion limit lies far beyond the request bound   *)
(* of this model).  Nothing called inside buy's try block raises a         *)
(* requests.exceptions.RequestException to buy (is_in_stock, add_to_cart   *)
(* and get_session_token each catch it themselves), so the workers of      *)
(* Spec never enter the except clause of buy.                              *)
(***************************************************************************)
EXTENDS Integers, Sequences, FiniteSets, TLC

\* ------------------------------------------------------------------ bounds
\* Number of product ids resolved for the run (one worker each).
NumProducts == 2
\* Total number of HTTP requests the environment answers in one run.
MaxRequests == 6
\* Longest response text / JSON message, in fragments.
MaxWords == 1
\* Number of direct calls of updateApiStatus in the method-level run.
MaxCalls == 6

\* --------------------------------------------------------------- constants
HTTP_OK == 200
HTTP_CREATED == 201
HTTP_UNAVAILABLE == 503

ONLINE == "online"
OFFLINE == "offline"
API_STATUS == {ONLINE, OFFLINE}

IN_STOCK_MARKER == <<"PRODUCT_INVENTORY_IN_STOCK">>
SUCCESS_MARKER == <<"successfully">>
SESSION_TOKEN_FIELD == "session_token"
MESSAGE_FIELD == "message"

\* The product ids of the run; worker w buys product id w.
ProductIds == 1..NumProducts

\* ------------------------------------------------------------------- texts
\* Python's `needle in haystack` on strings: needle occurs as a contiguous run.
Occurs(needle, hay) ==
    \E i \in 0..(Len(hay) - Len(needle)) :
        SubSeq(hay, i + 1, i + Len(needle)) = needle

TextsOver(frags) == UNION {[1..n -> frags] : n \in 0..MaxWords}

\* ----------------------------------------------------------------- locales
\* A locale code is a string of characters; str.lower() maps each upper-case
\* letter to its lower-case letter and leaves every other character alone.
UpperToLower ==
    [A |-> "a", B |-> "b", C |-> "c", D |-> "d", E |-> "e", F |-> "f", G |-> "g",
     K |-> "k", N |-> "n", R |-> "r", S |-> "s", T |-> "t", U |-> "u", Z |-> "z"]

lower_char(c) == IF c \in DOMAIN UpperToLower THEN UpperToLower[c] ELSE c

lower(str) == [i \in DOMAIN str |-> lower_char(str[i])]

DE_AT == <<"d", "e", "_", "a", "t">>
FR_BE == <<"f", "r", "_", "b", "e">>
DA_DK == <<"d", "a", "_", "d", "k">>
CS_CZ == <<"c", "s", "_", "c", "z">>
DE_DE == <<"d", "e", "_", "d", "e">>
FR_FR == <<"f", "r", "_", "f", "r">>
EN_GB == <<"e", "n", "_", "g", "b">>
EN_US == <<"e", "n", "_", "u", "s">>

\* map_locales as it would be without its last remapping (cs_cz).
map_locales_without_cs_cz(cli) ==
    IF cli = DE_AT THEN DE_DE
    ELSE IF cli = FR_BE THEN FR_FR
    ELSE IF cli = DA_DK THEN EN_GB
    ELSE cli

\* map_locales, applied to self.cli_locale.
map_locales(cli) ==
    IF cli = DE_AT THEN DE_DE
    ELSE IF cli = FR_BE THEN FR_FR
    ELSE IF cli = DA_DK THEN EN_GB
    ELSE IF cli = CS_CZ THEN EN_GB
    ELSE cli

\* The locale arguments a caller passes: each code in every mix of cases.
LocaleCodes == {DE_AT, FR_BE, DA_DK, CS_CZ, DE_DE, FR_FR, EN_GB, EN_US}

Upper(c) ==
    IF \E u \in DOMAIN UpperToLower : UpperToLower[u] = c
    THEN CHOOSE u \in DOMAIN UpperToLower : UpperToLower[u] = c
    ELSE c

LocaleArguments ==
    {[i \in DOMAIN code |-> IF up[i] THEN Upper(code[i]) ELSE code[i]] :
        code \in LocaleCodes, up \in [1..5 -> BOOLEAN]}

\* ----------------------------------------------------------------- catalog
\* GPU_DISPLAY_NAMES' keys, and a family it does not list.
GPU_DISPLAY_NAMES == {"2060S", "3080", "3090"}
GpuArguments == {"3080", "3090", "3070"}

\* An entry of PRODUCT_IDS[locale][gpu]: a JSON string or a JSON list.
StrEntry(id) == [kind |-> "str", str |-> id, list |-> <<>>]
ListEntry(ids) == [kind |-> "list", str |-> 0, list |-> ids]

CatalogEntries == {StrEntry(1), StrEntry(3), ListEntry(<<1, 2>>), ListEntry(<<3>>)}

\* PRODUCT_IDS as loaded from nvidia_product_ids.json: datasets that list the
\* regional locales next to the vendor's, or the vendor's alone.
Remapped == {DE_AT, FR_BE, DA_DK, CS_CZ}

Catalogs ==
    {[l \in keys |-> [g \in GPU_DISPLAY_NAMES |-> IF l \in Remapped THEN regional ELSE vendor]] :
        keys \in {LocaleCodes, LocaleCodes \ Remapped},
        regional \in CatalogEntries,
        vendor \in CatalogEntries}

\* The dataset of the runs of Spec: one list of NumProducts ids per key.
DefaultCatalog ==
    [l \in LocaleCodes |-> [g \in GPU_DISPLAY_NAMES |-> ListEntry([i \in ProductIds |-> i])]]

Normalized(entry) ==
    IF entry.kind = "list" THEN entry.list
    ELSE IF entry.kind = "str" THEN <<entry.str>>
    ELSE <<>>

\* get_product_ids as it would be if it looked up under self.locale.
get_product_ids_by_locale(PRODUCT_IDS, cli, g) ==
    Normalized(PRODUCT_IDS[map_locales(cli)][g])

\* get_product_ids: the value it leaves in self.product_ids.
get_product_ids(PRODUCT_IDS, cli, g) ==
    Normalized(PRODUCT_IDS[cli][g])

\* The lookups of __init__ that raise KeyError: GPU_DISPLAY_NAMES[gpu] and
\* PRODUCT_IDS[self.cli_locale][self.gpu].
InitRaisesKeyError(PRODUCT_IDS, cli, g) ==
    \/ g \notin GPU_DISPLAY_NAMES
    \/ cli \notin DOMAIN PRODUCT_IDS
    \/ g \notin DOMAIN PRODUCT_IDS[cli]

\* --------------------------------------------------------------- responses
\* What session.get / session.post hands back: an HTTP response, or a
\* requests.exceptions.RequestException raised by the transport.
\* `valid` says whether the body parses as JSON, `obj` is the parsed object.
TransportFailure ==
    [kind |-> "transport", status |-> 0, text |-> <<>>, valid |-> FALSE, obj |-> <<>>]

NoResponse ==
    [kind |-> "none", status |-> 0, text |-> <<>>, valid |-> FALSE, obj |-> <<>>]

Http(status, text, valid, obj) ==
    [kind |-> "http", status |-> status, text |-> text, valid |-> valid, obj |-> obj]

StockResponses ==
    {TransportFailure} \cup
    {Http(s, t, FALSE, <<>>) :
        s \in {HTTP_OK, HTTP_UNAVAILABLE},
        t \in TextsOver({"PRODUCT_INVENTORY_IN_STOCK", "PRODUCT_INVENTORY_OUT_OF_STOCK"})}

TokenObjects == {<<>>, [session_token |-> "tok"], [error |-> "denied"]}

TokenResponses ==
    {TransportFailure} \cup
    {Http(s, <<>>, FALSE, <<>>) : s \in {HTTP_OK, HTTP_UNAVAILABLE}} \cup
    {Http(s, <<>>, TRUE, o) : s \in {HTTP_OK, HTTP_UNAVAILABLE}, o \in TokenObjects}

CartObjects ==
    {<<>>} \cup {[message |-> m] : m \in TextsOver({"Added", "successfully"})}

CartResponses ==
    {TransportFailure} \cup
    {Http(s, <<>>, FALSE, <<>>) : s \in {HTTP_OK, HTTP_CREATED, HTTP_UNAVAILABLE}} \cup
    {Http(s, <<>>, TRUE, o) :
        s \in {HTTP_OK, HTTP_CREATED, HTTP_UNAVAILABLE}, o \in CartObjects}

\* ----------------------------------------------------------- python values
\* What a call hands to its caller: a returned value (None, a bare bool, a
\* pair) or a raised exception.
PyValue(tag, success, token) == [tag |-> tag, success |-> success, token |-> token]
PyUnset == PyValue("unset", FALSE, "")
PyNone == PyValue("None", FALSE, "")
PyFalse == PyValue("False", FALSE, "")
PyTrue == PyValue("True", TRUE, "")
PyPair(success, token) == PyValue("pair", success, token)
PyRaise(exc) == PyValue(exc, FALSE, "")

\* response.json() on a body that is no JSON raises JSONDecodeError, which is
\* a RequestException in requests >= 2.27 and a plain ValueError before.
JsonErrors == {"RequestException", "ValueError"}

\* --------------------------------------------------------- pure functions
\* is_in_stock as it would be if only a 200 response could report stock.
is_in_stock_only_200(resp) ==
    IF resp.kind = "transport"
    THEN FALSE
    ELSE resp.status = HTTP_OK /\ Occurs(IN_STOCK_MARKER, resp.text)

\* is_in_stock, given what the inventory GET produced.
is_in_stock(resp) ==
    IF resp.kind = "transport"
    THEN FALSE
    ELSE Occurs(IN_STOCK_MARKER, resp.text)

\* get_session_token, given what the token GET produced: the set of results
\* the call can hand back.
get_session_token(resp) ==
    IF resp.kind = "transport"
    THEN {PyFalse}
    ELSE IF resp.status = HTTP_OK
         THEN IF ~resp.valid
              THEN {IF e = "RequestException" THEN PyFalse ELSE PyRaise(e) :
                       e \in JsonErrors}
              ELSE IF SESSION_TOKEN_FIELD \notin DOMAIN resp.obj
                   THEN {PyPair(FALSE, "")}
                   ELSE {PyPair(TRUE, resp.obj[SESSION_TOKEN_FIELD])}
         ELSE {PyNone}

\* `success, token = self.get_session_token()` followed by `if not success`:
\* what add_to_cart does with the value before any POST.
\*   "post"  - goes on to the cart POST
\*   other   - add_to_cart is over with that result
unpack_token(ret) ==
    IF ret.tag = "pair"
    THEN IF ret.success THEN PyValue("post", TRUE, ret.token) ELSE PyFalse
    ELSE IF ret.tag \in {"None", "False", "True"}
         THEN PyRaise("TypeError")
         ELSE ret

\* The rest of add_to_cart as it would be if it tested the status against
\* CART_SUCCESS_CODES = {201, 200} instead of 200.
cart_post_result_success_codes(resp) ==
    IF resp.kind = "transport"
    THEN {PyFalse}
    ELSE IF resp.status \in {HTTP_CREATED, HTTP_OK}
         THEN IF ~resp.valid
              THEN {IF e = "RequestException" THEN PyFalse ELSE PyRaise(e) :
                       e \in JsonErrors}
              ELSE IF MESSAGE_FIELD \notin DOMAIN resp.obj
                   THEN {PyRaise("KeyError")}
                   ELSE IF Occurs(SUCCESS_MARKER, resp.obj[MESSAGE_FIELD])
                        THEN {PyTrue}
                        ELSE {PyFalse}
         ELSE {PyFalse}

\* The rest of add_to_cart, given what the cart POST produced.
cart_post_result(resp) ==
    IF resp.kind = "transport"
    THEN {PyFalse}
    ELSE IF resp.status = HTTP_OK
         THEN IF ~resp.valid
              THEN {IF e = "RequestException" THEN PyFalse ELSE PyRaise(e) :
                       e \in JsonErrors}
              ELSE IF MESSAGE_FIELD \notin DOMAIN resp.obj
                   THEN {PyRaise("KeyError")}
                   ELSE IF Occurs(SUCCESS_MARKER, resp.obj[MESSAGE_FIELD])
                        THEN {PyTrue}
                        ELSE {PyFalse}
         ELSE {PyFalse}

IsException(v) == v.tag \in {"TypeError", "KeyError", "ValueError"}

\* ------------------------------------------------------------------- state
VARIABLES
    run,         \* run_items: "init", "waiting", "returned", "raised"
    pc,          \* pc[w]: where worker w stands in buy
    enabled,     \* self.enabled
    api_status,  \* self.api_status
    api_online,  \* self.api_online ("unset" until first assigned)
    attempt,     \* self.attempt
    loaded,      \* loaded[w]: the value of self.attempt worker w read for its increment
    misses,      \* misses[w]: how many of w's own polls returned False (SpecTallied)
    shown,       \* shown[w]: the attempt number in w's last Spinner text (SpecTallied)
    stockResp,   \* stockResp[w]: what w's last inventory GET produced
    inStock,     \* inStock[w]: what w's last is_in_stock call returned
    tokenResp,   \* tokenResp[w]: what the token GET of w's add_to_cart produced
    tokenRet,    \* tokenRet[w]: what get_session_token handed to add_to_cart
    cartResp,    \* cartResp[w]: what the cart POST of w's add_to_cart produced
    cartRet,     \* cartRet[w]: what add_to_cart handed to buy
    posted,      \* posted[w]: w's current add_to_cart call has issued the POST
    notified,    \* notified[w]: the messages w gave to notification_handler
    calls,       \* requests issued so far, per endpoint
    driver,      \* arguments of the direct updateApiStatus calls made so far
    test,        \* self.test
    arg_locale,  \* the locale argument of __init__
    gpu,         \* self.gpu
    catalog,     \* PRODUCT_IDS, loaded once from the dataset
    cli_locale,  \* self.cli_locale
    locale,      \* self.locale
    product_ids  \* self.product_ids

vars ==
    <<run, pc, enabled, api_status, api_online, attempt, loaded, misses, shown,
      stockResp, inStock, tokenResp, tokenRet, cartResp, cartRet, posted, notified, calls, driver,
      test, arg_locale, gpu, catalog, cli_locale, locale, product_ids>>

\* What __init__ sets from its arguments and no method assigns afterwards.
config == <<test, arg_locale, gpu, catalog>>
resolved == <<cli_locale, locale, product_ids>>

shared == <<enabled, api_status, api_online, attempt>>
stockVars == <<stockResp, inStock>>
cartVars == <<tokenResp, tokenRet, cartResp, cartRet, posted>>

TotalCalls == calls.stock + calls.token + calls.cart

\* Worker w's future is done: buy returned ("done"), or raised an exception
\* buy does not catch ("raised"; "changed" for ProductIDChangedException).
Terminated(w) == pc[w] \in {"done", "raised", "changed"}

\* executor.submit(self.buy, product_id) for product_id in ids.
submit_all(ids) == [w \in ProductIds |-> IF w \in DOMAIN ids THEN "poll" ELSE "unstarted"]

\* The fields __init__ sets to fixed values (lines 68-79), and the model's
\* bookkeeping.
Defaults ==
    /\ pc = [w \in ProductIds |-> "unstarted"]
    /\ enabled = TRUE
    /\ api_status = ONLINE
    /\ api_online = "unset"
    /\ attempt = 0
    /\ loaded = [w \in ProductIds |-> 0]
    /\ misses = [w \in ProductIds |-> 0]
    /\ shown = [w \in ProductIds |-> 0]
    /\ stockResp = [w \in ProductIds |-> NoResponse]
    /\ inStock = [w \in ProductIds |-> FALSE]
    /\ tokenResp = [w \in ProductIds |-> NoResponse]
    /\ tokenRet = [w \in ProductIds |-> PyUnset]
    /\ cartResp = [w \in ProductIds |-> NoResponse]
    /\ cartRet = [w \in ProductIds |-> PyUnset]
    /\ posted = [w \in ProductIds |-> FALSE]
    /\ notified = [w \in ProductIds |-> <<>>]
    /\ calls = [stock |-> 0, token |-> 0, cart |-> 0]
    /\ driver = <<>>

\* The object NvidiaBuyer("3080", locale="en_us", test=t) is, before
\* run_items is called.
Fresh(t) ==
    /\ Defaults
    /\ run = "init"
    /\ test = t
    /\ arg_locale = EN_US
    /\ gpu = "3080"
    /\ catalog = DefaultCatalog
    /\ cli_locale = lower(EN_US)
    /\ locale = map_locales(lower(EN_US))
    /\ product_ids = get_product_ids(DefaultCatalog, lower(EN_US), "3080")

\* NvidiaBuyer("3080") with the defaults of __init__: test=False.
Init == Fresh(FALSE)

\* NvidiaBuyer("3080", test=True).
InitDryRun == Fresh(TRUE)

\* Before a call of NvidiaBuyer(gpu, locale): any arguments, any dataset.
InitCtor ==
    /\ Defaults
    /\ run = "new"
    /\ test = FALSE
    /\ arg_locale \in LocaleArguments
    /\ gpu \in GpuArguments
    /\ catalog \in Catalogs
    /\ cli_locale = <<>>
    /\ locale = <<>>
    /\ product_ids = <<>>

\* ----------------------------------------------------------------- actions
\* notification_handler.send_notification(message) called by thread w: the
\* sink takes the message and returns.
send_notification(w, message) == [notified EXCEPT ![w] = Append(@, message)]

\* updateApiStatus(api_status), called by thread w.
updateApiStatus(w, status) ==
    /\ notified' =
           IF api_status = OFFLINE /\ status = ONLINE
           THEN send_notification(w, "online")
           ELSE notified
    /\ api_online' = status
    /\ UNCHANGED api_status

\* run_items: one thread per product id, all started.
run_items ==
    /\ run = "init"
    /\ run' = "waiting"
    /\ pc' = submit_all(product_ids)
    /\ UNCHANGED <<shared, loaded, misses, shown, stockVars, cartVars, notified, calls, driver, config, resolved>>

\* buy, `while not self.is_in_stock(product_id)`: one inventory GET.
poll(w) ==
    /\ pc[w] = "poll"
    /\ TotalCalls < MaxRequests
    /\ \E r \in StockResponses :
           /\ stockResp' = [stockResp EXCEPT ![w] = r]
           /\ inStock' = [inStock EXCEPT ![w] = is_in_stock(r)]
    /\ calls' = [calls EXCEPT !.stock = @ + 1]
    /\ pc' = [pc EXCEPT ![w] = "polled"]
    /\ UNCHANGED <<run, shared, loaded, misses, shown, cartVars, notified, driver, config, resolved>>

\* buy, loop body after a poll that returned False: updateApiStatus(ONLINE)
\* and the read of self.attempt for `self.attempt = self.attempt + 1`.  The
\* step says nothing about the tally misses, which is no field of the program.
loop_body(w) ==
    /\ pc[w] = "polled"
    /\ ~inStock[w]
    /\ updateApiStatus(w, ONLINE)
    /\ loaded' = [loaded EXCEPT ![w] = attempt]
    /\ stockResp' = [stockResp EXCEPT ![w] = NoResponse]
    /\ pc' = [pc EXCEPT ![w] = "store"]
    /\ UNCHANGED <<run, enabled, attempt, shown, inStock, cartVars, calls, driver, config,
                   resolved>>

\* The step in a run that keeps no tally.
not_in_stock(w) == loop_body(w) /\ UNCHANGED misses

\* The step in a run that tallies each worker's own polls that returned False.
tallied_not_in_stock(w) == loop_body(w) /\ misses' = [misses EXCEPT ![w] = @ + 1]

\* buy, the write of `self.attempt = self.attempt + 1`.
store_attempt(w) ==
    /\ pc[w] = "store"
    /\ attempt' = loaded[w] + 1
    /\ loaded' = [loaded EXCEPT ![w] = 0]
    /\ pc' = [pc EXCEPT ![w] = "spin"]
    /\ UNCHANGED <<run, enabled, api_status, api_online, misses, shown, stockVars, cartVars,
                   notified, calls, driver, config, resolved>>

\* buy, the Spinner text f"Stock Check ({self.attempt}, ...": a second read of
\* self.attempt, after time_delta was computed, then the sleep.  The text is
\* output, not a field: the step says nothing about the record shown.
spinner_text(w) ==
    /\ pc[w] = "spin"
    /\ pc' = [pc EXCEPT ![w] = "poll"]
    /\ UNCHANGED <<run, shared, loaded, misses, stockVars, cartVars, notified, calls, driver,
                   config, resolved>>

\* The step in a run that keeps no record of the texts.
spinner(w) == spinner_text(w) /\ UNCHANGED shown

\* The step in a run that records the attempt number of each worker's last text.
recorded_spinner(w) == spinner_text(w) /\ shown' = [shown EXCEPT ![w] = attempt]

\* The exit of the polling loop as it would be if the loop ran once
\* whatever is_in_stock returned.
in_stock_whatever_poll(w) ==
    /\ pc[w] = "polled"
    /\ updateApiStatus(w, ONLINE)
    /\ stockResp' = [stockResp EXCEPT ![w] = NoResponse]
    /\ pc' = [pc EXCEPT ![w] = IF enabled THEN "cart" ELSE "done"]
    /\ UNCHANGED <<run, enabled, attempt, loaded, misses, shown, inStock, cartVars, calls, driver,
                   config, resolved>>

\* buy, after a poll that returned True: updateApiStatus(ONLINE), then
\* `if self.enabled`.  With enabled false buy returns.
in_stock(w) ==
    /\ pc[w] = "polled"
    /\ inStock[w]
    /\ updateApiStatus(w, ONLINE)
    /\ stockResp' = [stockResp EXCEPT ![w] = NoResponse]
    /\ pc' = [pc EXCEPT ![w] = IF enabled THEN "cart" ELSE "done"]
    /\ UNCHANGED <<run, enabled, attempt, loaded, misses, shown, inStock, cartVars, calls, driver,
                   config, resolved>>

\* add_to_cart up to the POST: the token GET, the unpacking of what
\* get_session_token handed back, and `if not success: return False`.
add_to_cart_token(w) ==
    /\ pc[w] = "cart"
    /\ TotalCalls < MaxRequests
    /\ \E r \in TokenResponses :
         \E v \in get_session_token(r) :
           LET u == unpack_token(v) IN
           /\ tokenResp' = [tokenResp EXCEPT ![w] = r]
           /\ tokenRet' = [tokenRet EXCEPT ![w] = v]
           /\ cartRet' = [cartRet EXCEPT ![w] = IF u.tag = "post" THEN PyUnset ELSE u]
           /\ pc' = [pc EXCEPT ![w] =
                        IF u.tag = "post" THEN "post"
                        ELSE IF IsException(u) THEN "raised"
                        ELSE "carted"]
    /\ posted' = [posted EXCEPT ![w] = FALSE]
    /\ cartResp' = [cartResp EXCEPT ![w] = NoResponse]
    /\ calls' = [calls EXCEPT !.token = @ + 1]
    /\ UNCHANGED <<run, shared, loaded, misses, shown, stockVars, notified, driver, config, resolved>>

\* add_to_cart from the POST on.
add_to_cart_post(w) ==
    /\ pc[w] = "post"
    /\ TotalCalls < MaxRequests
    /\ \E r \in CartResponses :
         \E v \in cart_post_result(r) :
           /\ cartResp' = [cartResp EXCEPT ![w] = r]
           /\ cartRet' = [cartRet EXCEPT ![w] = v]
           /\ pc' = [pc EXCEPT ![w] = IF IsException(v) THEN "raised" ELSE "carted"]
    /\ posted' = [posted EXCEPT ![w] = TRUE]
    /\ calls' = [calls EXCEPT !.cart = @ + 1]
    /\ UNCHANGED <<run, shared, loaded, misses, shown, stockVars, tokenResp, tokenRet, notified, driver, config, resolved>>

\* What a worker forgets when it leaves the `if cart_success` statement.
ForgetCart(w) ==
    /\ tokenResp' = [tokenResp EXCEPT ![w] = NoResponse]
    /\ tokenRet' = [tokenRet EXCEPT ![w] = PyUnset]
    /\ cartResp' = [cartResp EXCEPT ![w] = NoResponse]
    /\ cartRet' = [cartRet EXCEPT ![w] = PyUnset]
    /\ posted' = [posted EXCEPT ![w] = FALSE]

\* The `if cart_success:` branch as it would be if the self.buy(product_id)
\* of the else branch followed the whole if statement.
cart_success_then_buy_again(w) ==
    /\ pc[w] = "carted"
    /\ cartRet[w].tag = "True"
    /\ enabled' = FALSE
    /\ notified' = send_notification(w, "success")
    /\ pc' = [pc EXCEPT ![w] = "poll"]
    /\ ForgetCart(w)
    /\ UNCHANGED <<run, api_status, api_online, attempt, loaded, misses, shown, stockVars, calls, driver, config, resolved>>

\* buy, `if cart_success:` branch: enabled = False, the browser, the success
\* notification; buy returns.
cart_success(w) ==
    /\ pc[w] = "carted"
    /\ cartRet[w].tag = "True"
    /\ enabled' = FALSE
    /\ notified' = send_notification(w, "success")
    /\ pc' = [pc EXCEPT ![w] = "done"]
    /\ ForgetCart(w)
    /\ UNCHANGED <<run, api_status, api_online, attempt, loaded, misses, shown, stockVars, calls, driver, config, resolved>>

\* The `else:` branch as it would be if the retry called add_to_cart again
\* instead of buy.
cart_failure_then_reserve(w) ==
    /\ pc[w] = "carted"
    /\ cartRet[w].tag = "False"
    /\ notified' = send_notification(w, "failure")
    /\ pc' = [pc EXCEPT ![w] = "cart"]
    /\ ForgetCart(w)
    /\ UNCHANGED <<run, shared, loaded, misses, shown, stockVars, calls, driver, config, resolved>>

\* buy, `else:` branch: the failure notification, then self.buy(product_id).
cart_failure(w) ==
    /\ pc[w] = "carted"
    /\ cartRet[w].tag = "False"
    /\ notified' = send_notification(w, "failure")
    /\ pc' = [pc EXCEPT ![w] = "poll"]
    /\ ForgetCart(w)
    /\ UNCHANGED <<run, shared, loaded, misses, shown, stockVars, calls, driver, config, resolved>>

\* The first future, in submission order, whose result() raises.
FirstFailed ==
    LET failed == {w \in DOMAIN product_ids : pc[w] \in {"raised", "changed"}}
    IN  IF failed = {} THEN 0
        ELSE CHOOSE w \in failed : \A v \in failed : w <= v

\* run_items as it would be without concurrent.futures.wait and the
\* executor's shutdown: the results are read while workers still run.
join_without_wait ==
    /\ run = "waiting"
    /\ IF FirstFailed = 0
       THEN /\ run' = "returned"
            /\ UNCHANGED <<pc, cartVars, product_ids>>
       ELSE IF pc[FirstFailed] = "raised"
       THEN /\ run' = "raised"
            /\ UNCHANGED <<pc, cartVars, product_ids>>
       ELSE /\ product_ids' = get_product_ids(catalog, cli_locale, gpu)
            /\ run' = "waiting"
            /\ pc' = submit_all(product_ids')
            /\ tokenResp' = [w \in ProductIds |-> NoResponse]
            /\ tokenRet' = [w \in ProductIds |-> PyUnset]
            /\ cartResp' = [w \in ProductIds |-> NoResponse]
            /\ cartRet' = [w \in ProductIds |-> PyUnset]
            /\ posted' = [w \in ProductIds |-> FALSE]
    /\ UNCHANGED <<shared, loaded, misses, shown, stockVars, notified, calls, driver, config,
                   cli_locale, locale>>

\* run_items after concurrent.futures.wait: fut.result() re-raises what a
\* worker raised, in submission order.  ProductIDChangedException is caught:
\* product_ids is cleared and resolved again, and run_items runs again with
\* new threads.  Any other exception leaves run_items.
join ==
    /\ run = "waiting"
    /\ \A w \in DOMAIN product_ids : Terminated(w)
    /\ IF FirstFailed = 0
       THEN /\ run' = "returned"
            /\ UNCHANGED <<pc, cartVars, product_ids>>
       ELSE IF pc[FirstFailed] = "raised"
       THEN /\ run' = "raised"
            /\ UNCHANGED <<pc, cartVars, product_ids>>
       ELSE /\ product_ids' = get_product_ids(catalog, cli_locale, gpu)
            /\ run' = "waiting"
            /\ pc' = submit_all(product_ids')
            /\ tokenResp' = [w \in ProductIds |-> NoResponse]
            /\ tokenRet' = [w \in ProductIds |-> PyUnset]
            /\ cartResp' = [w \in ProductIds |-> NoResponse]
            /\ cartRet' = [w \in ProductIds |-> PyUnset]
            /\ posted' = [w \in ProductIds |-> FALSE]
    /\ UNCHANGED <<shared, loaded, misses, shown, stockVars, notified, calls, driver, config,
                   cli_locale, locale>>

Next ==
    \/ run_items
    \/ \E w \in ProductIds : poll(w)
    \/ \E w \in ProductIds : not_in_stock(w)
    \/ \E w \in ProductIds : store_attempt(w)
    \/ \E w \in ProductIds : spinner(w)
    \/ \E w \in ProductIds : in_stock(w)
    \/ \E w \in ProductIds : add_to_cart_token(w)
    \/ \E w \in ProductIds : add_to_cart_post(w)
    \/ \E w \in ProductIds : cart_success(w)
    \/ \E w \in ProductIds : cart_failure(w)
    \/ join

Spec == Init /\ [][Next]_vars

\* The same run of an object constructed with test=True.
SpecDryRun == InitDryRun /\ [][Next]_vars

\* --------------------------------------------------- the attempt counter
\* The same run, observed: each worker's own polls that returned False are
\* tallied in misses and the attempt number of its last Spinner text is
\* recorded in shown.
NextTallied ==
    \/ run_items
    \/ \E w \in ProductIds : poll(w)
    \/ \E w \in ProductIds : tallied_not_in_stock(w)
    \/ \E w \in ProductIds : store_attempt(w)
    \/ \E w \in ProductIds : recorded_spinner(w)
    \/ \E w \in ProductIds : in_stock(w)
    \/ \E w \in ProductIds : add_to_cart_token(w)
    \/ \E w \in ProductIds : add_to_cart_post(w)
    \/ \E w \in ProductIds : cart_success(w)
    \/ \E w \in ProductIds : cart_failure(w)
    \/ join

SpecTallied == Init /\ [][NextTallied]_vars

\* ------------------------------------------------------ the catalog changed
\* A worker's buy ends with ProductIDChangedException, the condition the
\* except clause of run_items names.
catalog_changed(w) ==
    /\ run = "waiting"
    /\ pc[w] = "poll"
    /\ pc' = [pc EXCEPT ![w] = "changed"]
    /\ UNCHANGED <<run, shared, loaded, misses, shown, stockVars, cartVars, notified, calls, driver,
                   config, resolved>>

NextChanged ==
    \/ Next
    \/ \E w \in ProductIds : catalog_changed(w)

\* The run with workers that may report a changed catalog.
SpecChanged == Init /\ [][NextChanged]_vars

\* ------------------------------------------------- the except clause of buy
\* A collaborator called inside buy's try block after add_to_cart (the
\* browser opener, the notification sink) fails with a RequestException
\* instead of returning.  In the success branch `self.enabled = False`
\* (line 161) has already run.
collaborator_raises(w) ==
    /\ pc[w] = "carted"
    /\ enabled' = IF cartRet[w].tag = "True" THEN FALSE ELSE enabled
    /\ pc' = [pc EXCEPT ![w] = "except"]
    /\ ForgetCart(w)
    /\ UNCHANGED <<run, api_status, api_online, attempt, loaded, misses, shown, stockVars, notified,
                   calls, driver, config, resolved>>

\* buy, `except requests.exceptions.RequestException`: updateApiStatus(OFFLINE),
\* then self.buy(product_id).
buy_except(w) ==
    /\ pc[w] = "except"
    /\ updateApiStatus(w, OFFLINE)
    /\ pc' = [pc EXCEPT ![w] = "poll"]
    /\ UNCHANGED <<run, enabled, attempt, loaded, misses, shown, stockVars, cartVars, calls, driver,
                   config, resolved>>

NextRaise ==
    \/ Next
    \/ \E w \in ProductIds : collaborator_raises(w)
    \/ \E w \in ProductIds : buy_except(w)

\* The run with collaborators that may fail in the transport.
SpecRaise == Init /\ [][NextRaise]_vars

\* ------------------------------------------------------------ the constructor
\* __init__: cli_locale, locale (lines 69-70), then GPU_DISPLAY_NAMES[gpu]
\* (line 81) and get_product_ids (line 95), either of which may raise KeyError.
construct ==
    /\ run = "new"
    /\ cli_locale' = lower(arg_locale)
    /\ locale' = map_locales(lower(arg_locale))
    /\ IF InitRaisesKeyError(catalog, lower(arg_locale), gpu)
       THEN /\ run' = "failed"
            /\ UNCHANGED product_ids
       ELSE /\ run' = "init"
            /\ product_ids' = get_product_ids(catalog, lower(arg_locale), gpu)
    /\ UNCHANGED <<pc, shared, loaded, misses, shown, stockVars, cartVars, notified, calls, driver, config>>

NextCtor == construct

SpecCtor == InitCtor /\ [][NextCtor]_vars

\* ------------------------------------------- updateApiStatus, called directly
\* The method driven on a freshly constructed NvidiaBuyer with each value its
\* call sites pass (ONLINE at lines 147 and 155, OFFLINE at line 177).
direct_call(w, status) ==
    /\ run = "init"
    /\ Len(driver) < MaxCalls
    /\ updateApiStatus(w, status)
    /\ driver' = Append(driver, status)
    /\ UNCHANGED <<run, pc, enabled, attempt, loaded, misses, shown, stockVars, cartVars, calls, config, resolved>>

NextApi == \E w \in ProductIds, status \in API_STATUS : direct_call(w, status)

SpecApi == Init /\ [][NextApi]_vars

\* ------------------------------------------------------------------ claims
Count(seq, x) == Cardinality({i \in DOMAIN seq : seq[i] = x})

\* The three failure cases of the token GET: a non-200 response, a 200
\* response whose JSON has no session_token field, a transport failure.
TokenNon200(r) == r.kind = "http" /\ r.status # HTTP_OK
TokenFieldMissing(r) ==
    r.kind = "http" /\ r.status = HTTP_OK /\ r.valid /\ SESSION_TOKEN_FIELD \notin DOMAIN r.obj
TokenTransport(r) == r.kind = "transport"
TokenFailureCase(r) == TokenNon200(r) \/ TokenFieldMissing(r) \/ TokenTransport(r)
TokenCarriesField(r) ==
    r.kind = "http" /\ r.status = HTTP_OK /\ r.valid /\ SESSION_TOKEN_FIELD \in DOMAIN r.obj

\* C1: once enabled has become false, no worker starts an add_to_cart call:
\* no session-token request and no cart POST is issued while enabled is false.
C1_NoReservationOnceDisabled ==
    [][~enabled => (calls'.token = calls.token /\ calls'.cart = calls.cart)]_vars

\* C2: within one run at most one add_to_cart call returns success, so at
\* most one worker sends the success notification.
C2_AtMostOneSuccess ==
    Cardinality({w \in ProductIds : Count(notified[w], "success") > 0}) <= 1

\* C3: no transport failure and no unexpected response makes a worker, or
\* run_items, terminate with an error.
C3_NoWorkerTerminatesWithError ==
    /\ \A w \in ProductIds : pc[w] # "raised"
    /\ run # "raised"

\* C4: get_session_token returns (false, "") in each of its three failure
\* cases, and (true, token) only for a 200 response carrying the field.
C4_TokenFailureIsFalsePair ==
    \A w \in ProductIds :
        tokenRet[w].tag # "unset" =>
            /\ TokenFailureCase(tokenResp[w]) => tokenRet[w] = PyPair(FALSE, "")
            /\ (tokenRet[w].tag = "pair" /\ tokenRet[w].success)
                   => TokenCarriesField(tokenResp[w])

\* C5: whenever get_session_token fails, add_to_cart returns false and has
\* issued no cart POST.
C5_TokenFailureReturnsFalseWithoutPost ==
    \A w \in ProductIds :
        (pc[w] \in {"carted", "raised"} /\ TokenFailureCase(tokenResp[w])) =>
            (cartRet[w] = PyFalse /\ ~posted[w])

\* C6: for every response of the inventory endpoint is_in_stock returns true
\* if and only if the marker occurs in the body, whatever the HTTP status.
C6_InStockIffMarkerInBody ==
    \A w \in ProductIds :
        (pc[w] = "polled" /\ stockResp[w].kind = "http") =>
            (inStock[w] <=>
                \E i \in DOMAIN stockResp[w].text :
                    stockResp[w].text[i] = "PRODUCT_INVENTORY_IN_STOCK")

\* C6 witness: a 503 response whose body holds the marker was reported in stock.
C6_Witness ==
    \E w \in ProductIds :
        /\ pc[w] = "polled"
        /\ stockResp[w].kind = "http"
        /\ stockResp[w].status = HTTP_UNAVAILABLE
        /\ inStock[w]

CartSuccessResponse(r) ==
    /\ r.kind = "http"
    /\ r.status = HTTP_OK
    /\ r.valid
    /\ MESSAGE_FIELD \in DOMAIN r.obj
    /\ \E i \in DOMAIN r.obj[MESSAGE_FIELD] : r.obj[MESSAGE_FIELD][i] = "successfully"

\* C7: given a successful session token, add_to_cart returns true if and only
\* if the POST response has status 200 and its message holds the success
\* substring; for any other status, or a transport failure, it returns false.
C7_CartSuccessIff200AndMessage ==
    \A w \in ProductIds :
        posted[w] =>
            /\ cartRet[w] = PyTrue <=> CartSuccessResponse(cartResp[w])
            /\ (cartResp[w].kind = "transport" \/ cartResp[w].status # HTTP_OK)
                   => cartRet[w] = PyFalse

\* C7 witness: a cart POST was answered and add_to_cart returned true.
C7_Witness ==
    \E w \in ProductIds :
        posted[w] /\ cartRet[w] = PyTrue /\ tokenRet[w].tag = "pair" /\ tokenRet[w].success

\* C8: a worker whose add_to_cart succeeded goes to DONE in its next step,
\* setting enabled to false and emitting the success notification; a worker
\* that is DONE with a success stays DONE, issues no further request, has
\* sent exactly one success notification and no notification after it.
C8_SuccessEndsWorker ==
    /\ [](\A w \in ProductIds :
             (pc[w] = "done" /\ Count(notified[w], "success") > 0) =>
                 /\ ~enabled
                 /\ Count(notified[w], "success") = 1
                 /\ notified[w][Len(notified[w])] = "success")
    /\ [][\A w \in ProductIds :
             /\ (pc[w] = "carted" /\ cartRet[w] = PyTrue /\ pc'[w] # pc[w]) =>
                    /\ pc'[w] = "done"
                    /\ ~enabled'
                    /\ notified'[w] = Append(notified[w], "success")
             /\ pc[w] = "done" => (pc'[w] = "done" /\ notified'[w] = notified[w])
         ]_vars

\* C8 witness: a worker is DONE after its success notification, which
\* followed an earlier failed attempt.
C8_Witness ==
    \E w \in ProductIds :
        /\ pc[w] = "done"
        /\ ~enabled
        /\ notified[w] = <<"failure", "success">>

OnlineNotes ==
    Cardinality(UNION {{<<w, i>> : i \in {j \in DOMAIN notified[w] : notified[w][j] = "online"}} :
                          w \in ProductIds})

Flips(log) ==
    Cardinality({i \in 2..Len(log) : log[i - 1] = OFFLINE /\ log[i] = ONLINE})

\* C9: after the status has been set to OFFLINE the next
\* updateApiStatus(ONLINE) sends the "back online" notification exactly once,
\* and updateApiStatus(ONLINE) while ONLINE sends nothing: the notifications
\* sent are as many as the OFFLINE-to-ONLINE flips among the calls.
C9_OnlineNoteOnFlip ==
    OnlineNotes = Flips(driver)

\* C10: immediately after is_in_stock has returned because of a transport
\* failure, the result is not-in-stock and api_status is OFFLINE.
C10_TransportFailureSetsOffline ==
    \A w \in ProductIds :
        (pc[w] = "polled" /\ stockResp[w].kind = "transport") =>
            (~inStock[w] /\ api_status = OFFLINE)

\* C11: when the dry-run/test flag is set, no add-to-cart POST is issued
\* during the whole run.
C11_DryRunIssuesNoCartPost ==
    test => calls.cart = 0

IsCode(arg, code) ==
    /\ Len(arg) = Len(code)
    /\ \A i \in DOMAIN code : arg[i] = code[i] \/ arg[i] = Upper(code[i])

\* C12: for every input in the remap table, in any mix of cases, the resolved
\* locale is the documented target (de_at -> de_de, fr_be -> fr_fr,
\* da_dk -> en_gb, cs_cz -> en_gb); for every other input it is the input
\* with each upper-case letter replaced by its lower-case letter.
C12_LocaleResolver ==
    run # "new" =>
        /\ IsCode(arg_locale, DE_AT) => locale = DE_DE
        /\ IsCode(arg_locale, FR_BE) => locale = FR_FR
        /\ IsCode(arg_locale, DA_DK) => locale = EN_GB
        /\ IsCode(arg_locale, CS_CZ) => locale = EN_GB
        /\ (\A code \in Remapped : ~IsCode(arg_locale, code)) =>
               /\ Len(locale) = Len(arg_locale)
               /\ \A i \in DOMAIN arg_locale :
                      \/ locale[i] = arg_locale[i] /\ arg_locale[i] \notin DOMAIN UpperToLower
                      \/ arg_locale[i] = Upper(locale[i]) /\ arg_locale[i] \in DOMAIN UpperToLower

\* C12 witness: "cs_CZ" resolved to en_gb, and "EN_us" resolved to en_us.
C12_Witness ==
    /\ run # "new"
    /\ \/ arg_locale = <<"c", "s", "_", "C", "Z">> /\ locale = EN_GB
       \/ arg_locale = <<"E", "N", "_", "u", "s">> /\ locale = EN_US

LastNote(w) == IF notified[w] = <<>> THEN "none" ELSE notified[w][Len(notified[w])]

\* C13 (as stated): between a worker's failure notification and its next
\* add_to_cart call the worker performs no stock poll.
C13_NoPollBeforeRetry ==
    [][\A w \in ProductIds :
          (LastNote(w) = "failure" /\ pc[w] = "poll") => pc'[w] = "poll"]_vars

\* C13 (amended): after a failed add_to_cart the worker sends the failure
\* notification and re-enters buy from its start: its next vendor request is
\* a stock poll, and it goes on to add_to_cart only from a poll that returned
\* true while enabled is still true.
C13_RetryRestartsAtPoll ==
    [][\A w \in ProductIds :
          /\ (pc[w] = "carted" /\ cartRet[w] = PyFalse /\ pc'[w] # pc[w]) =>
                 /\ pc'[w] = "poll"
                 /\ notified'[w] = Append(notified[w], "failure")
          /\ (pc[w] = "poll" /\ pc'[w] # "poll") =>
                 /\ pc'[w] = "polled"
                 /\ calls'.stock = calls.stock + 1
                 /\ calls'.token = calls.token
                 /\ calls'.cart = calls.cart
          /\ (pc[w] # "cart" /\ pc'[w] = "cart") =>
                 (pc[w] = "polled" /\ inStock[w] /\ enabled)
      ]_vars

\* C13 witness: a worker whose last notification is the failure one has
\* polled the inventory again.
C13_Witness ==
    \E w \in ProductIds : LastNote(w) = "failure" /\ pc[w] = "polled"

\* C14: when a network exception is caught in a worker, the worker restarts
\* the buy cycle from CHECKING (its next vendor request is a stock poll), the
\* API status is OFFLINE at the restart, and the attempt count is reset.
C14_ExceptionRestartsCycle ==
    [][\A w \in ProductIds :
          (pc[w] = "except" /\ pc'[w] # "except") =>
              /\ pc'[w] = "poll"
              /\ api_status' = OFFLINE
              /\ attempt' = 0
      ]_vars

\* C15: a worker only reserves after observing stock: while a worker is in an
\* add_to_cart call (or about to make it, or holding its result) the last
\* stock poll of its buy cycle returned true.
C15_ReserveOnlyAfterStock ==
    \A w \in ProductIds :
        pc[w] \in {"cart", "post", "carted"} => inStock[w]

\* C15 witness: a worker has issued the cart POST of a reservation.
C15_Witness ==
    \E w \in ProductIds : pc[w] = "carted" /\ posted[w] /\ inStock[w]

\* C16: run_items starts exactly one worker per product id; it neither
\* returns nor acts on a catalog-changed condition before every worker it
\* started has terminated; on a catalog-changed condition it resolves
\* product_ids again from the catalog and starts a new run of one worker per
\* product id.
C16_RunItemsJoinsThenRestarts ==
    /\ [](run # "init" =>
             Cardinality({w \in ProductIds : pc[w] # "unstarted"}) = Len(product_ids))
    /\ [](run \in {"returned", "raised"} => \A w \in ProductIds : Terminated(w))
    /\ [][/\ (run = "waiting" /\ run' # "waiting") => \A w \in ProductIds : Terminated(w)
          /\ (run = "waiting" /\ run' = "returned") => \A w \in ProductIds : pc[w] = "done"
          /\ (\E w \in ProductIds : pc[w] = "changed" /\ pc'[w] # "changed") =>
                 /\ \A w \in ProductIds : Terminated(w)
                 /\ run' = "waiting"
                 /\ product_ids' = Normalized(catalog[cli_locale][gpu])
                 /\ \A w \in ProductIds : pc'[w] = "poll"
      ]_vars

\* C16 witness: after a catalog-changed restart a worker that had already
\* sent its success notification stands at the start of buy again.
C16_Witness ==
    \E w \in ProductIds :
        run = "waiting" /\ pc[w] = "poll" /\ Count(notified[w], "success") > 0

\* C17: a cart POST answered with status 201 and a success message is
\* treated by add_to_cart as a successful reservation, like status 200.
C17_CreatedIsSuccess ==
    \A w \in ProductIds :
        ( /\ posted[w]
          /\ cartResp[w].kind = "http"
          /\ cartResp[w].status = HTTP_CREATED
          /\ cartResp[w].valid
          /\ MESSAGE_FIELD \in DOMAIN cartResp[w].obj
          /\ \E i \in DOMAIN cartResp[w].obj[MESSAGE_FIELD] :
                 cartResp[w].obj[MESSAGE_FIELD][i] = "successfully" )
        => cartRet[w] = PyTrue

C19_ShownAttemptIsOwnMisses ==
    \A w \in ProductIds :
        (misses[w] > 0 /\ pc[w] \notin {"store", "spin"}) => shown[w] = misses[w]

====
